---- MODULE Spec2Model ----
(***************************************************************************)
(* PageRank analyzer (src/pagerank.py): crawl, transition_model,           *)
(* sample_pagerank and iterate_pagerank.                                   *)
(*                                                                         *)
(* Python floats are modelled as exact rationals <<numerator, denominator>>*)
(* in lowest terms with a positive denominator; rounding of IEEE doubles   *)
(* is not modelled.                                                        *)
(***************************************************************************)
EXTENDS Integers, Sequences, FiniteSets, TLC

-----------------------------------------------------------------------------
(* Bounds of the model *)

\* largest sample count n handed to sample_pagerank
MaxSamples == 2

\* ranks of iterate_pagerank are tracked while their common denominator
\* does not exceed MaxDen
MaxDen == 100000

\* longest list of hrefs found in one file
MaxLinks == 2

-----------------------------------------------------------------------------
(* Exact rational arithmetic standing for Python's float arithmetic *)

Rat == Int \X Int

\* the helpers are functions, so that their arguments are evaluated once
GCD[a \in Int, b \in Int] == IF b = 0 THEN a ELSE GCD[b, a % b]

LCM[a \in Int, b \in Int] == (a \div GCD[a, b]) * b

Abs[x \in Int] == IF x < 0 THEN -x ELSE x

Norm[n \in Int, d \in Int] ==
    LET g == GCD[Abs[n], d] IN <<n \div g, d \div g>>

Zero == <<0, 1>>
One == <<1, 1>>

RAdd[x \in Rat, y \in Rat] ==
    LET l == LCM[x[2], y[2]]
    IN  Norm[x[1] * (l \div x[2]) + y[1] * (l \div y[2]), l]

RSub[x \in Rat, y \in Rat] == RAdd[x, <<-y[1], y[2]>>]

RMul[x \in Rat, y \in Rat] ==
    LET g1 == GCD[Abs[x[1]], y[2]]
        g2 == GCD[Abs[y[1]], x[2]]
    IN  <<(x[1] \div g1) * (y[1] \div g2), (x[2] \div g2) * (y[2] \div g1)>>

\* x / k for an integer k > 0
RDivInt[x \in Rat, k \in Int] == RMul[x, <<1, k>>]

RAbs[x \in Rat] == <<Abs[x[1]], x[2]>>

RLt[x \in Rat, y \in Rat] ==
    LET l == LCM[x[2], y[2]]
    IN  x[1] * (l \div x[2]) < y[1] * (l \div y[2])

RLe[x \in Rat, y \in Rat] == ~RLt[y, x]

\* sum(f.values())
RECURSIVE RSumOver(_, _)
RSumOver(f, S) ==
    IF S = {} THEN Zero
    ELSE LET p == CHOOSE q \in S : TRUE
         IN  RAdd[f[p], RSumOver(f, S \ {p})]

RSum(f) == RSumOver(f, DOMAIN f)

\* least common denominator of the values of a rank mapping
RECURSIVE DenOver(_, _)
DenOver(f, S) ==
    IF S = {} THEN 1
    ELSE LET p == CHOOSE q \in S : TRUE
         IN  LCM[f[p][2], DenOver(f, S \ {p})]

CommonDen(f) == DenOver(f, DOMAIN f)

-----------------------------------------------------------------------------
(* Program constants *)

DAMPING == <<17, 20>>

\* the convergence threshold 0.001 of iterate_pagerank
Tolerance == <<1, 1000>>

\* the value of a variable that holds no dictionary: a mapping that differs
\* from every dictionary over file names
None == [x \in {<<"None", "">>} |-> <<0, 1>>]

\* the value of current_page outside a call of sample_pagerank
NoPage == <<"None", "">>

-----------------------------------------------------------------------------
(* Inputs *)

\* a file name is <<stem, extension>>; "1.html" is <<"1", "html">>
IsHtml(filename) == filename[2] = "html"

HtmlFiles == {<<"1", "html">>, <<"2", "html">>, <<"3", "html">>}

\* the damping factors the operations are called with
Dampings == {Zero, <<1, 2>>, DAMPING, One}

\* the sample counts the operations are called with
SampleCounts == -1 .. MaxSamples

\* a canonical listing of a set of links: one sequence per set
RECURSIVE SeqOf(_)
SeqOf(S) ==
    IF S = {} THEN <<>>
    ELSE LET p == CHOOSE q \in S : TRUE IN <<p>> \o SeqOf(S \ {p})

\* folders of html pages whose links all lead to other pages of the folder
LinkedFolders ==
    UNION { [F -> SUBSET F] : F \in SUBSET HtmlFiles }

CleanFolders ==
    { [f \in DOMAIN g |-> SeqOf(g[f] \ {f})] : g \in LinkedFolders }

\* folders that also hold a file that is no page, and the hrefs a file can
\* hold: "x.html" is a page outside the folder
CrawlFiles == {<<"1", "html">>, <<"2", "html">>, <<"notes", "txt">>}
Hrefs == CrawlFiles \cup {<<"x", "html">>}

HrefLists == UNION { [1 .. k -> Hrefs] : k \in 0 .. MaxLinks }

AnyFolders == UNION { [F -> HrefLists] : F \in SUBSET CrawlFiles }

-----------------------------------------------------------------------------
(* crawl *)

ToSet(s) == { s[i] : i \in 1 .. Len(s) }

\* crawl_extract without the "- {filename}" of line 26
crawl_extract_keeping_self(dir) ==
    [filename \in { f \in DOMAIN dir : IsHtml(f) } |-> ToSet(dir[filename])]

\* first loop of crawl: the links of every html file, without the file itself
crawl_extract(dir) ==
    [filename \in { f \in DOMAIN dir : IsHtml(f) } |->
        ToSet(dir[filename]) \ {filename}]

\* second loop of crawl: only links to pages of the corpus remain
crawl_filter(pages) ==
    [filename \in DOMAIN pages |->
        { link \in pages[filename] : link \in DOMAIN pages }]

crawl(dir) == crawl_filter(crawl_extract(dir))

-----------------------------------------------------------------------------
(* transition_model *)

linked_pages(corpus, page) ==
    IF page \in DOMAIN corpus THEN corpus[page] ELSE DOMAIN corpus

link_prob(corpus, page, damping_factor) ==
    IF linked_pages(corpus, page) # {}
    THEN RDivInt[damping_factor, Cardinality(linked_pages(corpus, page))]
    ELSE Zero

random_prob(corpus, damping_factor) ==
    RDivInt[RSub[One, damping_factor], Cardinality(DOMAIN corpus)]

\* the dictionary returned for a non-empty corpus
transition_model(corpus, page, damping_factor) ==
    [p \in DOMAIN corpus |->
        IF p \in linked_pages(corpus, page)
        THEN RAdd[random_prob(corpus, damping_factor),
                  link_prob(corpus, page, damping_factor)]
        ELSE random_prob(corpus, damping_factor)]

-----------------------------------------------------------------------------
(* State *)

VARIABLES
    directory,      \* the folder: file name -> hrefs found in the file
    damping_factor, \* the damping factor the operations are called with
    n,              \* the sample count sample_pagerank is called with
    corpus,         \* the dictionary crawl returned (None before crawl)
    outcome,        \* per operation: "none", "running", "returned", or the
                    \* name of the exception it raised ("horizon": the run of
                    \* iterate_pagerank left the bounds of the model)
    transition_probabilities, \* the dictionary transition_model returned last
    sample_rank,    \* page_rank of sample_pagerank
    current_page,   \* current_page of sample_pagerank
    steps,          \* completed passes of the loop of sample_pagerank
    ranks_sampling, \* the dictionary sample_pagerank returned
    page_rank,      \* page_rank of iterate_pagerank
    ranks_iteration \* the dictionary iterate_pagerank returned

vars == <<directory, damping_factor, n, corpus, outcome,
          transition_probabilities, sample_rank, current_page, steps,
          ranks_sampling, page_rank, ranks_iteration>>

inputs == <<directory, damping_factor, n>>
sample_locals == <<sample_rank, current_page, steps>>

Operations == {"crawl", "transition_model", "sample_pagerank",
               "iterate_pagerank"}

Idle == corpus # None /\ \A op \in Operations : outcome[op] # "running"

InitWith(folders, dampings, counts) ==
    /\ directory \in folders
    /\ damping_factor \in dampings
    /\ n \in counts
    /\ corpus = None
    /\ outcome = [op \in Operations |-> "none"]
    /\ transition_probabilities = None
    /\ sample_rank = None
    /\ current_page = NoPage
    /\ steps = 0
    /\ ranks_sampling = None
    /\ page_rank = None
    /\ ranks_iteration = None

Init == InitWith(CleanFolders, Dampings, SampleCounts)

\* crawl on folders with files that are no pages, repeated links, links of a
\* page to itself and links that leave the folder
CrawlInit == InitWith(AnyFolders, {DAMPING}, {MaxSamples})

-----------------------------------------------------------------------------
(* Operations *)

\* corpus = crawl(folder_path)
Crawl ==
    /\ outcome["crawl"] = "none"
    /\ corpus' = crawl(directory)
    /\ outcome' = [outcome EXCEPT !["crawl"] = "returned"]
    /\ UNCHANGED <<inputs, transition_probabilities, sample_locals,
                   ranks_sampling, page_rank, ranks_iteration>>

\* a call transition_model(corpus, page, damping_factor) of its own;
\* on an empty corpus line 53 divides by zero
TransitionCall ==
    /\ Idle
    /\ outcome["transition_model"] = "none"
    /\ \E page \in HtmlFiles :
        IF DOMAIN corpus = {}
        THEN /\ outcome' = [outcome EXCEPT
                               !["transition_model"] = "ZeroDivisionError"]
             /\ UNCHANGED transition_probabilities
        ELSE /\ outcome' = [outcome EXCEPT !["transition_model"] = "returned"]
             /\ transition_probabilities' =
                    transition_model(corpus, page, damping_factor)
    /\ UNCHANGED <<inputs, corpus, sample_locals, ranks_sampling, page_rank,
                   ranks_iteration>>

\* sample_pagerank up to the loop: random.choice raises IndexError on an
\* empty list of pages
SampleCall ==
    /\ Idle
    /\ outcome["sample_pagerank"] = "none"
    /\ IF DOMAIN corpus = {}
       THEN /\ outcome' = [outcome EXCEPT !["sample_pagerank"] = "IndexError"]
            /\ UNCHANGED sample_locals
       ELSE /\ outcome' = [outcome EXCEPT !["sample_pagerank"] = "running"]
            /\ sample_rank' = [page \in DOMAIN corpus |-> Zero]
            /\ current_page' \in DOMAIN corpus
            /\ steps' = 0
    /\ UNCHANGED <<inputs, corpus, transition_probabilities, ranks_sampling,
                   page_rank, ranks_iteration>>

\* the pages random.choices can return: those of positive weight
Drawable(weights) == { p \in DOMAIN weights : RLt[Zero, weights[p]] }

\* one pass of the loop of sample_pagerank; random.choices raises ValueError
\* when the weights total zero, and the locals of the call are gone
SampleStepEffect ==
    /\ outcome["sample_pagerank"] = "running"
    /\ steps < n
    /\ LET counted == [sample_rank EXCEPT ![current_page] =
                            RAdd[@, <<1, n>>]]
           tp == transition_model(corpus, current_page, damping_factor)
       IN  IF Drawable(tp) = {}
           THEN /\ outcome' = [outcome EXCEPT
                                  !["sample_pagerank"] = "ValueError"]
                /\ sample_rank' = None
                /\ transition_probabilities' = None
                /\ current_page' = NoPage
                /\ UNCHANGED steps
           ELSE /\ sample_rank' = counted
                /\ transition_probabilities' = tp
                /\ current_page' \in Drawable(tp)
                /\ steps' = steps + 1
                /\ UNCHANGED outcome
    /\ UNCHANGED <<inputs, ranks_sampling, page_rank, ranks_iteration>>

\* SampleStep with a transition_model that writes the links of a page
\* without links into the graph it was given
SampleStepPatchingCorpus ==
    /\ SampleStepEffect
    /\ corpus' = [corpus EXCEPT ![current_page] =
                      IF @ = {} THEN DOMAIN corpus \ {current_page} ELSE @]

\* transition_model and the loop only read the graph
SampleStep ==
    /\ SampleStepEffect
    /\ UNCHANGED corpus

\* SampleReturn with a loop that ends one pass early
SampleReturnEarly ==
    /\ outcome["sample_pagerank"] = "running"
    /\ steps >= n - 1
    /\ ranks_sampling' = sample_rank
    /\ outcome' = [outcome EXCEPT !["sample_pagerank"] = "returned"]
    /\ sample_rank' = None
    /\ transition_probabilities' = None
    /\ current_page' = NoPage
    /\ UNCHANGED <<inputs, corpus, steps, page_rank, ranks_iteration>>

\* range(n) is exhausted: return page_rank; the locals of the call are gone
SampleReturn ==
    /\ outcome["sample_pagerank"] = "running"
    /\ steps >= n
    /\ ranks_sampling' = sample_rank
    /\ outcome' = [outcome EXCEPT !["sample_pagerank"] = "returned"]
    /\ sample_rank' = None
    /\ transition_probabilities' = None
    /\ current_page' = NoPage
    /\ UNCHANGED <<inputs, corpus, steps, page_rank, ranks_iteration>>

\* iterate_pagerank up to the loop; the comprehension evaluates 1 / N once
\* per page, so an empty corpus divides nothing
IterateCall ==
    /\ Idle
    /\ outcome["iterate_pagerank"] = "none"
    /\ page_rank' = [page \in DOMAIN corpus |->
                        Norm[1, Cardinality(DOMAIN corpus)]]
    /\ outcome' = [outcome EXCEPT !["iterate_pagerank"] = "running"]
    /\ UNCHANGED <<inputs, corpus, transition_probabilities, sample_locals,
                   ranks_sampling, ranks_iteration>>

\* the pages whose link sets contain page
LinkingPages(graph, page) == { q \in DOMAIN graph : page \in graph[q] }

\* damping_factor * page_rank[linking_page] / len(linked_pages), summed over
\* the linking pages
RECURSIVE Contributions(_, _, _, _)
Contributions(graph, rank, d, S) ==
    IF S = {} THEN Zero
    ELSE LET q == CHOOSE x \in S : TRUE
         IN  RAdd[RDivInt[RMul[d, rank[q]], Cardinality(graph[q])],
                  Contributions(graph, rank, d, S \ {q})]

\* new_page_rank without the "/ len(linked_pages)" of line 113
RECURSIVE ContributionsUndivided(_, _, _, _)
ContributionsUndivided(graph, rank, d, S) ==
    IF S = {} THEN Zero
    ELSE LET q == CHOOSE x \in S : TRUE
         IN  RAdd[RMul[d, rank[q]],
                  ContributionsUndivided(graph, rank, d, S \ {q})]

new_page_rank_undivided(graph, rank, d) ==
    [page \in DOMAIN graph |->
        RAdd[RDivInt[RSub[One, d], Cardinality(DOMAIN graph)],
             ContributionsUndivided(graph, rank, d,
                                    LinkingPages(graph, page))]]

\* new_page_rank as the for loop of lines 107-115 builds it
new_page_rank(graph, rank, d) ==
    [page \in DOMAIN graph |->
        RAdd[RDivInt[RSub[One, d], Cardinality(DOMAIN graph)],
             Contributions(graph, rank, d, LinkingPages(graph, page))]]

\* Converged with any() in the place of all()
ConvergedAny(graph, new, rank) ==
    \E page \in DOMAIN graph :
        RLt[RAbs[RSub[new[page], rank[page]]], Tolerance]

\* the convergence test of line 118
Converged(graph, new, rank) ==
    \A page \in DOMAIN graph :
        RLt[RAbs[RSub[new[page], rank[page]]], Tolerance]

\* one pass of the while loop that ends in the break and the return; the
\* local page_rank is gone
IterateReturn ==
    /\ outcome["iterate_pagerank"] = "running"
    /\ Converged(corpus, new_page_rank(corpus, page_rank, damping_factor),
                 page_rank)
    /\ ranks_iteration' = page_rank
    /\ outcome' = [outcome EXCEPT !["iterate_pagerank"] = "returned"]
    /\ page_rank' = None
    /\ UNCHANGED <<inputs, corpus, transition_probabilities, sample_locals,
                   ranks_sampling>>

\* one pass of the while loop that ends in page_rank = new_page_rank
IterateLoop ==
    /\ outcome["iterate_pagerank"] = "running"
    /\ LET new == new_page_rank(corpus, page_rank, damping_factor)
       IN  /\ ~Converged(corpus, new, page_rank)
           /\ CommonDen(new) <= MaxDen
           /\ page_rank' = new
    /\ UNCHANGED <<inputs, corpus, outcome, transition_probabilities,
                   sample_locals, ranks_sampling, ranks_iteration>>

\* the next pass would take the ranks past MaxDen: the model follows the
\* call no further
IterateHorizon ==
    /\ outcome["iterate_pagerank"] = "running"
    /\ LET new == new_page_rank(corpus, page_rank, damping_factor)
       IN  /\ ~Converged(corpus, new, page_rank)
           /\ CommonDen(new) > MaxDen
    /\ outcome' = [outcome EXCEPT !["iterate_pagerank"] = "horizon"]
    /\ UNCHANGED <<inputs, corpus, transition_probabilities, sample_locals,
                   ranks_sampling, page_rank, ranks_iteration>>

Next ==
    \/ Crawl
    \/ TransitionCall
    \/ SampleCall
    \/ SampleStep
    \/ SampleReturn
    \/ IterateCall
    \/ IterateReturn
    \/ IterateLoop
    \/ IterateHorizon

Spec == Init /\ [][Next]_vars

CrawlNext == Crawl

CrawlSpec == CrawlInit /\ [][CrawlNext]_vars

\* sample_pagerank alone
SampleNext ==
    \/ Crawl
    \/ SampleCall
    \/ SampleStep
    \/ SampleReturn

SampleSpec == Init /\ [][SampleNext]_vars

\* a pass of the loop of iterate_pagerank
IteratePass == IterateReturn \/ IterateLoop \/ IterateHorizon

IterNext ==
    \/ Crawl
    \/ IterateCall
    \/ IterateReturn
    \/ IterateLoop
    \/ IterateHorizon

\* iterate_pagerank alone; the interpreter keeps running a loop that has
\* another pass to make
IterSpec == Init /\ [][IterNext]_vars /\ WF_vars(IteratePass)

-----------------------------------------------------------------------------
(* Properties *)

Returned(op) == outcome[op] = "returned"
Running(op) == outcome[op] = "running"

NonEmptyGraph == corpus # None /\ DOMAIN corpus # {}
EmptyGraph == corpus # None /\ DOMAIN corpus = {}

\* the damping factor lies strictly between 0 and 1
InnerDamping == RLt[Zero, damping_factor] /\ RLt[damping_factor, One]

IsProbability(x) == RLe[Zero, x] /\ RLe[x, One]

\* C1: for a non-empty graph, any current page (a page without links
\* included) and any damping factor in [0,1], the dictionary transition_model
\* returns holds a non-negative value for every page and the values sum to 1
C1_TransitionIsDistribution ==
    transition_probabilities # None =>
        /\ DOMAIN transition_probabilities = DOMAIN corpus
        /\ \A p \in DOMAIN corpus : RLe[Zero, transition_probabilities[p]]
        /\ RSum(transition_probabilities) = One

\* C2: in iterate_pagerank, for a non-empty graph and a damping factor in
\* (0,1), the ranks sum to 1 in every pass of the loop and in the result
C2_IterateSumsToOne ==
    (NonEmptyGraph /\ InnerDamping) =>
        /\ page_rank # None => RSum(page_rank) = One
        /\ ranks_iteration # None => RSum(ranks_iteration) = One

C4_IterateEnds ==
    Running("iterate_pagerank") ~>
        outcome["iterate_pagerank"] \in
            {"returned", "ConvergenceFailure", "horizon"}

\* C5: on an empty graph, or with a sample count of zero or less, the
\* operations return no mapping, so every mapping an estimator returns sums
\* to 1
C5_InvalidInputReturnsNothing ==
    /\ EmptyGraph =>
          /\ transition_probabilities = None
          /\ ranks_sampling = None
          /\ ranks_iteration = None
    /\ (corpus # None /\ n <= 0) => ranks_sampling = None
    /\ ranks_sampling # None => RSum(ranks_sampling) = One

\* C6: for a graph of one page without links and a damping factor in (0,1),
\* sample_pagerank (n >= 1) and iterate_pagerank return rank 1 for the page
C6_SinglePageRankOne ==
    (NonEmptyGraph /\ InnerDamping /\ Cardinality(DOMAIN corpus) = 1) =>
        \A p \in DOMAIN corpus :
            /\ (ranks_sampling # None /\ n >= 1) => ranks_sampling[p] = One
            /\ ranks_iteration # None => ranks_iteration[p] = One

\* C7: the graph crawl builds has exactly the pages of the folder as keys,
\* and the link set of a page holds exactly the hrefs of the page that are
\* keys of the graph and differ from the page itself
C7_CrawlGraph ==
    corpus # None =>
        /\ DOMAIN corpus = { f \in DOMAIN directory : IsHtml(f) }
        /\ \A f \in DOMAIN corpus :
              corpus[f] = { directory[f][i] : i \in
                              { j \in 1 .. Len(directory[f]) :
                                  /\ directory[f][j] \in DOMAIN corpus
                                  /\ directory[f][j] # f } }

\* crawl has run on a folder with a file that is no page, a page that links
\* to itself, a page with a link twice, a link that leaves the folder, and a
\* page that is left without links although it has hrefs
C7_Witness ==
    /\ corpus # None
    /\ \E f \in DOMAIN directory : ~IsHtml(f)
    /\ \E f \in DOMAIN corpus : f \in ToSet(directory[f])
    /\ \E f \in DOMAIN corpus :
          /\ Len(directory[f]) = 2
          /\ directory[f][1] = directory[f][2]
          /\ corpus[f] # {}
    /\ \E f \in DOMAIN corpus :
          /\ \E i \in 1 .. Len(directory[f]) :
                directory[f][i] \notin DOMAIN directory
          /\ corpus[f] = {}

\* C8: no step of transition_model, sample_pagerank or iterate_pagerank
\* changes the graph, no step of sample_pagerank changes what
\* iterate_pagerank works on or returned, and the other way round; a call of
\* transition_model of its own changes neither
C8_GraphReadOnly ==
    [][ /\ corpus # None => corpus' = corpus
        /\ outcome["transition_model"] # outcome'["transition_model"]
           => /\ sample_locals' = sample_locals
              /\ ranks_sampling' = ranks_sampling
              /\ page_rank' = page_rank
              /\ ranks_iteration' = ranks_iteration
        /\ outcome["sample_pagerank"] # outcome'["sample_pagerank"]
              \/ sample_locals # sample_locals'
              \/ ranks_sampling # ranks_sampling'
           => /\ page_rank' = page_rank
              /\ ranks_iteration' = ranks_iteration
              /\ outcome'["iterate_pagerank"] = outcome["iterate_pagerank"]
        /\ outcome["iterate_pagerank"] # outcome'["iterate_pagerank"]
              \/ page_rank # page_rank'
              \/ ranks_iteration # ranks_iteration'
           => /\ sample_locals' = sample_locals
              /\ ranks_sampling' = ranks_sampling
              /\ transition_probabilities' = transition_probabilities
              /\ outcome'["sample_pagerank"] = outcome["sample_pagerank"]
      ]_vars

\* all three operations have returned on a graph with links
C8_Witness ==
    /\ Returned("transition_model")
    /\ Returned("sample_pagerank")
    /\ Returned("iterate_pagerank")
    /\ n >= 1
    /\ \E p \in DOMAIN corpus : corpus[p] # {}

\* newRank[p] = (1 - damping)/N + damping * sum over the pages q that link
\* to p of rank[q] / outDegree(q)
RECURSIVE InflowOver(_, _)
InflowOver(rank, S) ==
    IF S = {} THEN Zero
    ELSE LET q == CHOOSE x \in S : TRUE
         IN  RAdd[RDivInt[rank[q], Cardinality(corpus[q])],
                  InflowOver(rank, S \ {q})]

UpdateOf(rank) ==
    [p \in DOMAIN corpus |->
        RAdd[RDivInt[RSub[One, damping_factor], Cardinality(DOMAIN corpus)],
             RMul[damping_factor,
                  InflowOver(rank, { q \in DOMAIN corpus : p \in corpus[q] })]]]

CloseTo(a, b) ==
    \A p \in DOMAIN corpus : RLt[RAbs[RSub[a[p], b[p]]], Tolerance]

\* C9: iterate_pagerank starts from rank 1/N for every page; a pass of the
\* loop that does not end the call found some page that moved by 0.001 or
\* more and replaces the ranks by the update of all pages; the pass that ends
\* the call found every page within 0.001 of its update and returns the
\* ranks it was given
C9_IterateUntilConverged ==
    [][ /\ (page_rank = None /\ page_rank' # None) =>
              \A p \in DOMAIN corpus :
                  page_rank'[p] = Norm[1, Cardinality(DOMAIN corpus)]
        /\ (page_rank # None /\ page_rank' # None /\ page_rank' # page_rank) =>
              /\ ~CloseTo(UpdateOf(page_rank), page_rank)
              /\ page_rank' = UpdateOf(page_rank)
        /\ (Running("iterate_pagerank") /\ UNCHANGED page_rank
              /\ outcome' # outcome) =>
              ~CloseTo(UpdateOf(page_rank), page_rank)
        /\ (ranks_iteration = None /\ ranks_iteration' # None) =>
              /\ ranks_iteration' = page_rank
              /\ CloseTo(UpdateOf(page_rank), page_rank)
      ]_vars

\* iterate_pagerank has returned ranks that are not the ranks it started
\* from and that the update would still move
C9_Witness ==
    /\ Returned("iterate_pagerank")
    /\ NonEmptyGraph
    /\ InnerDamping
    /\ \E p \in DOMAIN corpus :
          ranks_iteration[p] # Norm[1, Cardinality(DOMAIN corpus)]
    /\ UpdateOf(ranks_iteration) # ranks_iteration

RankBounds(rank) ==
    /\ \A p \in DOMAIN corpus :
          /\ RLe[RDivInt[RSub[One, damping_factor],
                         Cardinality(DOMAIN corpus)], rank[p]]
          /\ RLe[rank[p], One]
    /\ RLe[RSum(rank), One]

\* C10: in iterate_pagerank, for a non-empty graph and a damping factor in
\* [0,1], every rank is at least (1 - damping)/N and at most 1 and the ranks
\* sum to at most 1, in every pass of the loop and in the result
C10_RankBounds ==
    NonEmptyGraph =>
        /\ page_rank # None => RankBounds(page_rank)
        /\ ranks_iteration # None => RankBounds(ranks_iteration)

\* the loop holds ranks, no longer the ranks it started from, with a page at
\* the least rank and a page above it
C10_Witness ==
    /\ NonEmptyGraph
    /\ InnerDamping
    /\ page_rank # None
    /\ \E p \in DOMAIN corpus :
          page_rank[p] = RDivInt[RSub[One, damping_factor],
                                 Cardinality(DOMAIN corpus)]
    /\ \E p \in DOMAIN corpus :
          RLt[Norm[1, Cardinality(DOMAIN corpus)], page_rank[p]]

====
